---- MODULE Spec2Model ----
(***************************************************************************)
(* Model of scripts/generate-react-icons.ts of b2c-icons: the colour        *)
(* normalisation of SVG icons (slugify, extractViewBox, detectColorMode,    *)
(* computeNewColor, extractInnerSVG) as the generator applies them to one   *)
(* icon file.  The file holds two generators: the one of lines 383-738,     *)
(* which tells multi-color icons by the prefix of their name and the others *)
(* by their colours, and the one of lines 1-381, which knows flags,         *)
(* multi-color icons by content and "filled" icons by name.  Spec runs      *)
(* either of them on one file; BatchSpec runs the loop over a directory;    *)
(* SlugSpec runs slugify on file names; RenderSpec renders the generated    *)
(* content through the createIcon wrappers of react-preview/src/App.tsx;    *)
(* ToastSpec runs the copy toast of the preview application.                *)
(*                                                                          *)
(* Markup is a sequence of tokens.  A token is an opening tag with its     *)
(* attributes in document order (<path fill="#000" d="M0 0"/>) or a closing *)
(* tag (</svg>).  The regular expressions of the source are modelled by     *)
(* what they match on such a sequence.  Attribute values hold no quote and  *)
(* no '>' character, so every tag the source's [^>]* stops at is a token.   *)
(***************************************************************************)
EXTENDS Integers, Sequences, FiniteSets, TLC

VARIABLES icon, svgContent, pc, slug, isMulticolor, colorMode, viewBox,
          innerContent, secondPass,
          isFlag, isMultiColor, isFilled,
          icons, position, optimizedContent, iconMetadata, formattedCode, written,
          warnings, failedAt,
          colorProp, secondaryColor, rendered,
          showToast, copiedName, timers, now, copies,
          slugAgain

\* The flags of the generator of lines 1-381.
flagVars == <<isFlag, isMultiColor, isFilled>>

\* The state of the loop over the directory: the file list, the place of
\* the file at hand in it, what the optimizer handed on, the metadata
\* pushed, the code to write, the files on disk, the warnings printed and
\* the step that threw, if one did.
batchVars == <<icons, position, optimizedContent, iconMetadata, formattedCode, written,
               warnings, failedAt>>

\* What the wrapper component is called with and what it renders.
wrapperVars == <<colorProp, secondaryColor, rendered>>

\* The toast of the preview application: whether it shows, the name it
\* announces, the timers that are pending, the time and the copies made.
toastVars == <<showToast, copiedName, timers, now, copies>>

\* The state the generator's steps leave alone: the wrapper's, the toast's
\* and the slug of a slug.
sideVars == <<wrapperVars, toastVars, slugAgain>>

vars == <<icon, svgContent, pc, slug, isMulticolor, colorMode, viewBox,
          innerContent, secondPass, flagVars, batchVars, sideVars>>

(***************************************************************************)
(* Markup tokens                                                            *)
(***************************************************************************)
Attr(n, v) == [name |-> n, value |-> v]

Open(tag, attrs, sc) ==
    [kind |-> "open", tag |-> tag, attrs |-> attrs, selfClosing |-> sc]

Close(tag) ==
    [kind |-> "close", tag |-> tag, attrs |-> <<>>, selfClosing |-> FALSE]

\* The values a match yields when there is none (null) and what
\* computeNewColor returns to have an attribute stripped (undefined).
Null == "<null>"
Undefined == "<undefined>"

(***************************************************************************)
(* String primitives, as tables over the strings of the model               *)
(***************************************************************************)
\* String.prototype.trim
Trim(s) ==
    CASE s = " #FFFFFF " -> "#FFFFFF"
      [] s = " #ffffff " -> "#ffffff"
      [] OTHER           -> s

\* String.prototype.toLowerCase
ToLowerCase(s) ==
    CASE s = "#FFFFFF"      -> "#ffffff"
      [] s = " #FFFFFF "    -> " #ffffff "
      [] s = "WHITE"        -> "white"
      [] s = "Black"        -> "black"
      [] s = "currentColor" -> "currentcolor"
      [] OTHER              -> s

\* BLACK_COLORS and WHITE_COLORS
BLACK_COLORS == {"black", "#000", "#000000"}
WHITE_COLORS == {"white", "#fff", "#ffffff"}

isBlackColor(color) == Trim(ToLowerCase(color)) \in BLACK_COLORS

isWhiteColor(color) == Trim(ToLowerCase(color)) \in WHITE_COLORS

(***************************************************************************)
(* Set helpers                                                              *)
(***************************************************************************)
Min(S) == CHOOSE x \in S : \A y \in S : x <= y
Max(S) == CHOOSE x \in S : \A y \in S : x >= y

(***************************************************************************)
(* File names: sequences of characters                                      *)
(***************************************************************************)
\* normalize("NFD") followed by the removal of the combining marks
\* U+0300..U+036F: an accented letter loses its accent.  "e_acute" stands for
\* the one character U+00E9.
StripDiacritics(c) ==
    CASE c = "e_acute" -> "e"
      [] c = "a_tilde" -> "a"
      [] OTHER         -> c

\* toLowerCase on one character
LowerChar(c) ==
    CASE c = "A" -> "a" [] c = "C" -> "c" [] c = "F" -> "f" [] c = "L" -> "l"
      [] c = "M" -> "m" [] c = "O" -> "o" [] c = "U" -> "u"
      [] c = "B" -> "b" [] c = "H" -> "h" [] c = "P" -> "p" [] c = "R" -> "r"
      [] OTHER -> c

\* The class [a-z0-9] of the slug's characters
SlugChars ==
    {"a", "b", "c", "d", "e", "f", "g", "h", "i", "j", "k", "l", "m", "n", "o",
     "p", "q", "r", "s", "t", "u", "v", "w", "x", "y", "z",
     "0", "1", "2", "3", "4", "5", "6", "7", "8", "9"}

\* replace(/[^a-z0-9]+/g, "-"): every maximal run of other characters
\* becomes one hyphen.
RECURSIVE HyphenateRuns(_, _)
HyphenateRuns(s, inRun) ==
    IF s = <<>> THEN <<>>
    ELSE IF Head(s) \in SlugChars
         THEN <<Head(s)>> \o HyphenateRuns(Tail(s), FALSE)
         ELSE IF inRun THEN HyphenateRuns(Tail(s), TRUE)
              ELSE <<"-">> \o HyphenateRuns(Tail(s), TRUE)

\* replace(/^-+|-+$/g, ""): the hyphens at both ends are removed.
RECURSIVE TrimLeadingHyphens(_)
TrimLeadingHyphens(s) ==
    IF s # <<>> /\ Head(s) = "-" THEN TrimLeadingHyphens(Tail(s)) ELSE s

RECURSIVE TrimTrailingHyphens(_)
TrimTrailingHyphens(s) ==
    IF s # <<>> /\ s[Len(s)] = "-"
    THEN TrimTrailingHyphens(SubSeq(s, 1, Len(s) - 1))
    ELSE s

\* A faulty variant of slugify: the hyphens at the ends are left.
slugify_noTrim(name) ==
    LET stripped == [i \in 1..Len(name) |-> StripDiacritics(name[i])]
        lowered  == [i \in 1..Len(name) |-> LowerChar(stripped[i])]
    IN  HyphenateRuns(lowered, FALSE)

slugify(name) ==
    LET stripped == [i \in 1..Len(name) |-> StripDiacritics(name[i])]
        lowered  == [i \in 1..Len(name) |-> LowerChar(stripped[i])]
    IN  TrimTrailingHyphens(TrimLeadingHyphens(HyphenateRuns(lowered, FALSE)))

\* charAt(0).toUpperCase() on one character of a slug
UpperChar(c) ==
    CASE c = "a" -> "A" [] c = "b" -> "B" [] c = "c" -> "C" [] c = "d" -> "D"
      [] c = "e" -> "E" [] c = "f" -> "F" [] c = "g" -> "G" [] c = "h" -> "H"
      [] c = "i" -> "I" [] c = "j" -> "J" [] c = "k" -> "K" [] c = "l" -> "L"
      [] c = "m" -> "M" [] c = "n" -> "N" [] c = "o" -> "O" [] c = "p" -> "P"
      [] c = "q" -> "Q" [] c = "r" -> "R" [] c = "s" -> "S" [] c = "t" -> "T"
      [] c = "u" -> "U" [] c = "v" -> "V" [] c = "w" -> "W" [] c = "x" -> "X"
      [] c = "y" -> "Y" [] c = "z" -> "Z"
      [] OTHER -> c

\* split("-").map(word => word.charAt(0).toUpperCase() + word.slice(1)).join(""):
\* the hyphens go, the character after a hyphen and the first one are
\* upper-cased.
RECURSIVE CapitalizeWords(_, _)
CapitalizeWords(s, atStart) ==
    IF s = <<>> THEN <<>>
    ELSE IF Head(s) = "-" THEN CapitalizeWords(Tail(s), TRUE)
    ELSE <<IF atStart THEN UpperChar(Head(s)) ELSE Head(s)>>
             \o CapitalizeWords(Tail(s), FALSE)

toPascalCase(s) == CapitalizeWords(s, TRUE)

\* String.prototype.startsWith
StartsWith(s, prefix) ==
    /\ Len(s) >= Len(prefix)
    /\ SubSeq(s, 1, Len(prefix)) = prefix

\* The reserved prefix "multicolor-"
MulticolorPrefix == <<"m", "u", "l", "t", "i", "c", "o", "l", "o", "r", "-">>

\* A faulty variant of IsMulticolorSlug: a "-filled" in the slug wins over
\* the prefix.
IsMulticolorSlug_unlessFilled(s) ==
    /\ StartsWith(s, MulticolorPrefix)
    /\ ~\E k \in 1..(Len(s) - 6) : SubSeq(s, k, k + 6) = <<"-", "f", "i", "l", "l", "e", "d">>

\* const isMulticolor = slug.startsWith("multicolor-")
IsMulticolorSlug(s) == StartsWith(s, MulticolorPrefix)

(***************************************************************************)
(* extractViewBox                                                           *)
(***************************************************************************)
\* The attributes of the whole markup in document order.
RECURSIVE AllAttrs(_)
AllAttrs(svg) ==
    IF svg = <<>> THEN <<>> ELSE Head(svg).attrs \o AllAttrs(Tail(svg))

DefaultViewBox == "0 0 24 24"

\* /viewBox\s*=\s*["']([^"']+)["']/ : the first viewBox attribute with a
\* non-empty value anywhere in the string.
extractViewBox(svg) ==
    LET found == SelectSeq(AllAttrs(svg),
                           LAMBDA a : a.name = "viewBox" /\ a.value # "")
    IN  IF found # <<>> THEN found[1].value ELSE DefaultViewBox

(***************************************************************************)
(* detectColorMode and computeNewColor                                      *)
(***************************************************************************)
\* The values /\b(?:fill|stroke)\s*=\s*["']([^"']+)["']/gi captures over the
\* whole string, each trimmed and lower-cased: every non-empty fill or stroke
\* value of every tag, the root tag and the tags of a <defs> block included.
ScannedColors(svg) ==
    LET hits == SelectSeq(AllAttrs(svg),
                          LAMBDA a : /\ ToLowerCase(a.name) \in {"fill", "stroke"}
                                     /\ a.value # "")
    IN  {ToLowerCase(Trim(hits[i].value)) : i \in 1..Len(hits)}

\* A faulty variant of detectColorMode: only a hex colour counts as another
\* colour.
detectColorMode_hexOnly(svg) ==
    IF \E color \in ScannedColors(svg) : color \in {"#ff0000", "#3366ff", "#ff00"}
    THEN "colored"
    ELSE "monochrome"

\* A faulty variant of detectColorMode: a markup without any colour is
\* taken for a coloured one.
detectColorMode_emptyColored(svg) ==
    IF ScannedColors(svg) = {} THEN "colored"
    ELSE IF \E color \in ScannedColors(svg) :
                /\ color \notin {"none", "currentcolor"}
                /\ ~isBlackColor(color) /\ ~isWhiteColor(color)
    THEN "colored"
    ELSE "monochrome"

detectColorMode(svg) ==
    IF \E color \in ScannedColors(svg) :
           /\ color \notin {"none", "currentcolor"}
           /\ ~isBlackColor(color) /\ ~isWhiteColor(color)
    THEN "colored"
    ELSE "monochrome"

\* A faulty variant of computeNewColor: black is dropped in both modes.
computeNewColor_dropBlack(effectiveColor, mode) ==
    LET lc == Trim(ToLowerCase(effectiveColor))
    IN  IF lc = "none" THEN "none"
        ELSE IF lc = "currentcolor" THEN Undefined
        ELSE IF isWhiteColor(effectiveColor) THEN "white"
        ELSE Undefined

\* A faulty variant of computeNewColor: black is kept in both modes.
computeNewColor_keepBlack(effectiveColor, mode) ==
    LET lc == Trim(ToLowerCase(effectiveColor))
    IN  IF lc = "none" THEN "none"
        ELSE IF lc = "currentcolor" THEN Undefined
        ELSE IF isWhiteColor(effectiveColor) THEN "white"
        ELSE IF isBlackColor(effectiveColor) THEN "black"
        ELSE Undefined

\* A faulty variant of computeNewColor: an unclassified value is kept.
computeNewColor_keepOther(effectiveColor, mode) ==
    LET lc == Trim(ToLowerCase(effectiveColor))
    IN  IF lc = "none" THEN "none"
        ELSE IF lc = "currentcolor" THEN Undefined
        ELSE IF isWhiteColor(effectiveColor) THEN "white"
        ELSE IF isBlackColor(effectiveColor)
             THEN (IF mode = "colored" THEN "black" ELSE Undefined)
        ELSE effectiveColor

\* A faulty variant of computeNewColor: the value is compared as written,
\* neither trimmed nor lower-cased.
computeNewColor_asWritten(effectiveColor, mode) ==
    IF effectiveColor = "none" THEN "none"
    ELSE IF effectiveColor = "currentcolor" THEN Undefined
    ELSE IF effectiveColor \in WHITE_COLORS THEN "white"
    ELSE IF effectiveColor \in BLACK_COLORS
         THEN (IF mode = "colored" THEN "black" ELSE Undefined)
    ELSE Undefined

computeNewColor(effectiveColor, mode) ==
    LET lc == Trim(ToLowerCase(effectiveColor))
    IN  IF lc = "none" THEN "none"
        ELSE IF lc = "currentcolor" THEN Undefined
        ELSE IF isWhiteColor(effectiveColor) THEN "white"
        ELSE IF isBlackColor(effectiveColor)
             THEN (IF mode = "colored" THEN "black" ELSE Undefined)
        ELSE Undefined

(***************************************************************************)
(* extractInnerSVG                                                          *)
(***************************************************************************)
\* /<svg[^>]*>([\s\S]*)<\/svg>/ : the leftmost <svg ...> tag and, the group
\* being greedy, the last </svg> after it.
IsSvgOpen(t) == t.kind = "open" /\ t.tag = "svg"
IsSvgClose(t) == t.kind = "close" /\ t.tag = "svg"

OpenSvgIndices(svg) == {i \in 1..Len(svg) : IsSvgOpen(svg[i])}
CloseSvgIndices(svg) == {i \in 1..Len(svg) : IsSvgClose(svg[i])}

HasEnvelope(svg) ==
    /\ OpenSvgIndices(svg) # {}
    /\ \E j \in CloseSvgIndices(svg) : j > Min(OpenSvgIndices(svg))

\* svg.match(/<svg[^>]*>/)[0]
SvgTag(svg) == svg[Min(OpenSvgIndices(svg))]

\* match[1].trim()
EnvelopeInner(svg) ==
    SubSeq(svg, Min(OpenSvgIndices(svg)) + 1,
                Max(CloseSvgIndices(svg)) - 1)

\* attrs.match(/\b<name>\s*=\s*["']([^"']*)["']/): the trimmed value of the
\* first attribute of that name, or null.
AttrValue(attrs, name) ==
    LET found == SelectSeq(attrs, LAMBDA a : a.name = name)
    IN  IF found # <<>> THEN Trim(found[1].value) ELSE Null

\* replace(/\s*\bfill\s*=\s*["'][^"']*["']/g, "") and the same for stroke:
\* the attributes without every fill and every stroke.
StripColours(attrs) == SelectSeq(attrs, LAMBDA a : a.name \notin {"fill", "stroke"})

HasAttr(attrs, name) == \E i \in 1..Len(attrs) : attrs[i].name = name

\* <(path|circle|rect|ellipse|polygon|line|polyline)([^>]*?)(\/?)> matches an
\* opening tag whose name begins with one of the seven names: the name it
\* captures, or "" when the tag is not matched.  <linearGradient ...> is
\* matched as <line followed by the attribute text "arGradient ...".
ShapeTags == {"path", "circle", "rect", "ellipse", "polygon", "line", "polyline"}

\* A faulty variant of ShapeRegexTag: the five names of an older pattern,
\* (path|circle|rect|ellipse|polygon).
ShapeRegexTag_five(t) ==
    IF t.kind # "open" THEN ""
    ELSE IF t.tag \in ShapeTags \ {"line", "polyline"} THEN t.tag
    ELSE ""

ShapeRegexTag(t) ==
    IF t.kind # "open" THEN ""
    ELSE IF t.tag \in ShapeTags THEN t.tag
    ELSE IF t.tag = "linearGradient" THEN "line"
    ELSE ""

\* A faulty variant of MulticolorShape: the colours are stripped first.
MulticolorShape_strip(t) ==
    IF ShapeRegexTag(t) = "" THEN t
    ELSE [t EXCEPT !.attrs =
              StripColours(@)
                  \o <<Attr("stroke", "none")>>]

\* The replacer of the multicolor branch.
MulticolorShape(t) ==
    IF ShapeRegexTag(t) = "" THEN t
    ELSE IF ~HasAttr(t.attrs, "stroke")
         THEN [t EXCEPT !.attrs = @ \o <<Attr("stroke", "none")>>]
         ELSE t

\* The attributes the replacer of the standard branch gives a shape.
NewAttrs(attrs, parentFill, parentStroke, mode) ==
    LET fillValue       == AttrValue(attrs, "fill")
        strokeValue     == AttrValue(attrs, "stroke")
        effectiveFill   == IF fillValue # Null THEN fillValue ELSE parentFill
        effectiveStroke == IF strokeValue # Null THEN strokeValue ELSE parentStroke
        stripped        == StripColours(attrs)
        newFill         == computeNewColor(effectiveFill, mode)
        newStroke       == computeNewColor(effectiveStroke, mode)
    IN  stripped
          \o (IF newFill # Undefined THEN <<Attr("fill", newFill)>> ELSE <<>>)
          \o (IF newStroke # Undefined THEN <<Attr("stroke", newStroke)>> ELSE <<>>)

\* A faulty variant of StandardShape: the root tag's fill and stroke are
\* not consulted.
StandardShape_noParent(t, parentFill, parentStroke, mode) ==
    IF ShapeRegexTag(t) = "" THEN t
    ELSE [t EXCEPT !.attrs = NewAttrs(@, "black", "black", mode)]

\* A faulty variant of StandardShape: the tag is written back without its
\* closing slash.
StandardShape_unclosed(t, parentFill, parentStroke, mode) ==
    IF ShapeRegexTag(t) = "" THEN t
    ELSE [t EXCEPT !.attrs = NewAttrs(@, parentFill, parentStroke, mode),
                   !.selfClosing = FALSE]

\* The replacer of the standard branch.
StandardShape(t, parentFill, parentStroke, mode) ==
    IF ShapeRegexTag(t) = "" THEN t
    ELSE [t EXCEPT !.attrs = NewAttrs(@, parentFill, parentStroke, mode)]

\* The root tag's fill, or "black"; its stroke, or "none".
ParentFill(svg) ==
    IF HasAttr(SvgTag(svg).attrs, "fill")
    THEN AttrValue(SvgTag(svg).attrs, "fill") ELSE "black"

ParentStroke(svg) ==
    IF HasAttr(SvgTag(svg).attrs, "stroke")
    THEN AttrValue(SvgTag(svg).attrs, "stroke") ELSE "none"

\* A faulty variant of extractInnerSVG: a markup without envelope is
\* rewritten like an inner markup.
extractInnerSVG_noPassThrough(svg, multicolor) ==
    IF ~HasEnvelope(svg)
    THEN [k \in 1..Len(svg) |->
             StandardShape(svg[k], "black", "none", detectColorMode(svg))]
    ELSE IF multicolor
         THEN [k \in 1..Len(EnvelopeInner(svg)) |-> MulticolorShape(EnvelopeInner(svg)[k])]
    ELSE [k \in 1..Len(EnvelopeInner(svg)) |->
             StandardShape(EnvelopeInner(svg)[k], ParentFill(svg), ParentStroke(svg),
                           detectColorMode(svg))]

extractInnerSVG(svg, multicolor) ==
    IF ~HasEnvelope(svg) THEN svg
    ELSE IF multicolor
         THEN [k \in 1..Len(EnvelopeInner(svg)) |-> MulticolorShape(EnvelopeInner(svg)[k])]
    ELSE [k \in 1..Len(EnvelopeInner(svg)) |->
             StandardShape(EnvelopeInner(svg)[k], ParentFill(svg), ParentStroke(svg),
                           detectColorMode(svg))]

\* The mode extractInnerSVG works in: none for a markup it passes through.
ColorModeOf(svg, multicolor) ==
    IF ~HasEnvelope(svg) THEN "none"
    ELSE IF multicolor THEN "multicolor"
    ELSE detectColorMode(svg)

(***************************************************************************)
(* The generator of lines 1-381: flags, multi-color icons by content,       *)
(* "filled" icons by name                                                   *)
(***************************************************************************)
\* slug.startsWith('flag-') and slug.includes('-filled')
FlagPrefix == <<"f", "l", "a", "g", "-">>
FilledMark == <<"-", "f", "i", "l", "l", "e", "d">>

\* String.prototype.includes
Includes(s, part) ==
    \E k \in 1..(Len(s) - Len(part) + 1) : SubSeq(s, k, k + Len(part) - 1) = part

\* replace(/<defs>[\s\S]*?<\/defs>/gi, ''): every <defs> tag without
\* attributes goes with what follows it up to the next </defs>.
IsPlainDefsOpen(t) ==
    t.kind = "open" /\ t.tag = "defs" /\ t.attrs = <<>> /\ ~t.selfClosing

IsDefsClose(t) == t.kind = "close" /\ t.tag = "defs"

RECURSIVE WithoutDefs(_)
WithoutDefs(svg) ==
    IF svg = <<>> THEN <<>>
    ELSE IF IsPlainDefsOpen(Head(svg)) /\ \E j \in 2..Len(svg) : IsDefsClose(svg[j])
         THEN WithoutDefs(SubSeq(svg, Min({j \in 2..Len(svg) : IsDefsClose(svg[j])}) + 1,
                                 Len(svg)))
         ELSE <<Head(svg)>> \o WithoutDefs(Tail(svg))

\* The values (?:fill|stroke)\s*=\s*["']...["'] runs over: every fill and
\* stroke value of the markup, as written.
WrittenColors(svg) ==
    {AllAttrs(svg)[i].value :
        i \in {j \in 1..Len(AllAttrs(svg)) :
                  ToLowerCase(AllAttrs(svg)[j].name) \in {"fill", "stroke"}}}

\* (?:white|#fff|#ffffff) under the flag i: the value as written, not trimmed.
WhiteLiterals == {"white", "#fff", "#ffffff"}

\* #(?!000000|000|fff|ffffff)[0-9a-fA-F]{3,6} : a '#' and three to six hex
\* digits that do not begin with 000 or fff.  Of the values of the model:
OtherHexColors == {"#ff0000", "#3366ff", "#ff00"}

\* (?!none)[^"']+ : a non-empty value that does not begin with none.
IsNonNone(v) == v # "" /\ v # "none"

isMultiColorIcon(content) ==
    LET colors         == WrittenColors(WithoutDefs(content))
        hasWhite       == \E v \in colors : ToLowerCase(v) \in WhiteLiterals
        hasOtherColors == \E v \in colors : v \in OtherHexColors
    IN  (hasWhite /\ \E v \in colors : IsNonNone(v)) \/ hasOtherColors

\* <(path|circle|rect|ellipse|polygon)([^>]*?)(\/?)> : the name captured, or
\* "" when the tag is not matched.
FiveShapeTag(t) ==
    IF t.kind = "open" /\ t.tag \in {"path", "circle", "rect", "ellipse", "polygon"}
    THEN t.tag ELSE ""

\* The replacer of the flag branch: stroke="none" on a shape without stroke.
FlagShape(t) ==
    IF FiveShapeTag(t) # "" /\ ~HasAttr(t.attrs, "stroke")
    THEN [t EXCEPT !.attrs = @ \o <<Attr("stroke", "none")>>]
    ELSE t

\* The replacer of the brand-colour branch: stroke="none" on a shape with a
\* fill and without stroke.
BrandShape(t) ==
    IF FiveShapeTag(t) # "" /\ HasAttr(t.attrs, "fill") /\ ~HasAttr(t.attrs, "stroke")
    THEN [t EXCEPT !.attrs = @ \o <<Attr("stroke", "none")>>]
    ELSE t

\* The eight replacements of the contrast branch: a white fill or stroke
\* becomes the secondary token, a black one the primary token.
TokenValue(v) ==
    IF ToLowerCase(v) \in {"#fff", "#ffffff", "white"} THEN "{{SECONDARY_COLOR}}"
    ELSE IF ToLowerCase(v) \in {"#000", "#000000", "black"} THEN "{{PRIMARY_COLOR}}"
    ELSE v

TokenColours(t) ==
    [t EXCEPT !.attrs =
        [i \in 1..Len(@) |->
            IF @[i].name \in {"fill", "stroke"}
            THEN Attr(@[i].name, TokenValue(@[i].value)) ELSE @[i]]]

\* /fill="(?!none)[^"]*"/.test(attrs) and /fill="none"/.test(attrs)
HasRealAttr(attrs, name) ==
    \E i \in 1..Len(attrs) : attrs[i].name = name /\ attrs[i].value # "none"

HasNoneAttr(attrs, name) ==
    \E i \in 1..Len(attrs) : attrs[i].name = name /\ attrs[i].value = "none"

\* The explicit none a stroke-only or fill-only element is given.
WithExplicitNone(attrs) ==
    LET hasFill   == HasRealAttr(attrs, "fill")
        hasStroke == HasRealAttr(attrs, "stroke")
    IN  IF hasStroke /\ ~hasFill /\ ~HasNoneAttr(attrs, "fill")
        THEN attrs \o <<Attr("fill", "none")>>
        ELSE IF hasFill /\ ~hasStroke /\ ~HasNoneAttr(attrs, "stroke")
        THEN attrs \o <<Attr("stroke", "none")>>
        ELSE attrs

\* replace(/\s*fill="(?!none)[^"]*"/g, '') and the same for stroke, over the
\* whole inner markup: every fill and stroke other than none goes.
StripRealColours(attrs) ==
    SelectSeq(attrs, LAMBDA a : a.name \notin {"fill", "stroke"} \/ a.value = "none")

\* replace(/\s*stroke-width="[^"]*"/g, '')
StripStrokeWidth(attrs) == SelectSeq(attrs, LAMBDA a : a.name # "stroke-width")

\* The "filled" branch: <(path|circle)([^>]*?)(\/?)> gets its explicit none,
\* then every tag loses its colours; a stroke-width stays.
FilledShape(t) ==
    IF t.kind # "open" THEN t
    ELSE [t EXCEPT !.attrs =
              StripRealColours(IF t.tag \in {"path", "circle"}
                               THEN WithExplicitNone(@) ELSE @)]

\* The regular branch: <path([^>]*?)(\/?)> gets its explicit none, then
\* every tag loses its colours and its stroke-width.
RegularShape(t) ==
    IF t.kind # "open" THEN t
    ELSE [t EXCEPT !.attrs =
              StripStrokeWidth(StripRealColours(IF t.tag = "path"
                                                THEN WithExplicitNone(@) ELSE @))]

\* hasBrandColors: an other hex colour in the inner markup outside <defs>.
HasBrandColors(inner) == \E v \in WrittenColors(WithoutDefs(inner)) : v \in OtherHexColors

\* extractInnerSVG(svg, preserveColors, isMultiColor, isFilled) of line 78.
extractInnerSVG1(svg, preserveColors, multiColor, filled) ==
    IF ~HasEnvelope(svg) THEN svg
    ELSE LET inner == EnvelopeInner(svg)
         IN  IF preserveColors /\ ~multiColor
             THEN [k \in 1..Len(inner) |-> FlagShape(inner[k])]
             ELSE IF multiColor
             THEN (IF HasBrandColors(inner)
                   THEN [k \in 1..Len(inner) |-> BrandShape(inner[k])]
                   ELSE [k \in 1..Len(inner) |-> TokenColours(inner[k])])
             ELSE IF filled
             THEN [k \in 1..Len(inner) |-> FilledShape(inner[k])]
             ELSE [k \in 1..Len(inner) |-> RegularShape(inner[k])]

(***************************************************************************)
(* The icon files the model draws from                                      *)
(***************************************************************************)
MaxBody == 2

IconNames ==
    { <<"M", "u", "l", "t", "i", "c", "o", "l", "o", "r", " ", "L", "o", "g", "o">>,
      <<"C", "a", "f", "e_acute">>,
      <<"H", "e", "a", "r", "t", "-", "F", "i", "l", "l", "e", "d">>,
      <<"M", "u", "l", "t", "i", "c", "o", "l", "o", "r", " ", "P", "i", "n", "-",
        "F", "i", "l", "l", "e", "d">>,
      <<"F", "l", "a", "g", " ", "B", "R", "-", "F", "i", "l", "l", "e", "d">> }

Shape(tag, attrs) == <<Open(tag, attrs, TRUE)>>

\* The pieces a file's body is made of: the seven shapes with and without a
\* stroke, over the colour classes and with colours in formats the
\* generator has no class for; a gradient; a <defs> block, a nested <svg>
\* and a group, each around one path.
BodyItems ==
    { Shape("path", <<Attr("fill", "#000"), Attr("d", "M0 0")>>),
      Shape("path", <<Attr("stroke", "#fff"), Attr("d", "M1 1")>>),
      Shape("path", <<Attr("fill", "#ff0000"), Attr("d", "M0 0")>>),
      Shape("path", <<Attr("fill", "#000000"), Attr("d", "M2 2")>>),
      Shape("path", <<Attr("d", "M3 3")>>),
      Shape("circle", <<Attr("r", "1"), Attr("fill", " #FFFFFF ")>>),
      Shape("circle", <<Attr("fill", "white"), Attr("stroke", "Black"),
                        Attr("stroke-width", "2"), Attr("r", "2")>>),
      Shape("rect", <<Attr("fill", "#3366ff"), Attr("width", "4")>>),
      Shape("rect", <<Attr("fill", "none"), Attr("stroke", "#3366ff")>>),
      Shape("ellipse", <<Attr("fill", "currentColor"), Attr("rx", "3")>>),
      Shape("ellipse", <<Attr("stroke", "none"), Attr("fill", "black")>>),
      Shape("polygon", <<Attr("points", "0,0 1,1"), Attr("fill", "none")>>),
      Shape("polygon", <<Attr("stroke", "currentColor"), Attr("points", "0,0 2,2")>>),
      Shape("line", <<Attr("x1", "0")>>),
      Shape("line", <<Attr("stroke", "#000"), Attr("stroke-width", "2")>>),
      Shape("polyline", <<Attr("fill", "red"), Attr("points", "0,0 3,3")>>),
      Shape("polyline", <<Attr("fill", "none"), Attr("stroke", "WHITE")>>),
      Shape("polygon", <<Attr("fill", "rgb(255, 0, 0)"), Attr("stroke", "var(--brand)"),
                         Attr("points", "0,0 4,4")>>),
      Shape("line", <<Attr("stroke", "#ff00"), Attr("x2", "5")>>),
      <<Open("linearGradient", <<Attr("id", "a")>>, TRUE)>>,
      <<Open("defs", <<>>, FALSE),
        Open("path", <<Attr("fill", "#ff0000"), Attr("d", "M9 9")>>, TRUE),
        Close("defs")>>,
      <<Open("svg", <<Attr("viewBox", "0 0 10 10")>>, FALSE),
        Open("path", <<Attr("d", "M4 4")>>, TRUE),
        Close("svg")>>,
      <<Open("g", <<Attr("fill", "#3366ff")>>, FALSE),
        Open("path", <<Attr("d", "M5 5")>>, TRUE),
        Close("g")>> }

\* The bodies of at most n pieces.
RECURSIVE Bodies(_)
Bodies(n) ==
    IF n = 0 THEN {<<>>}
    ELSE Bodies(n - 1) \cup {b \o item : b \in Bodies(n - 1), item \in BodyItems}

\* What stands before and after the body: nothing (an inner markup), a root
\* tag with its closing tag, or a root tag that is never closed.
Envelopes ==
    { <<<<>>, <<>>>>,
      <<<<Open("svg", <<Attr("viewBox", "0 0 24 24")>>, FALSE)>>, <<Close("svg")>>>>,
      <<<<Open("svg", <<Attr("xmlns", "w3")>>, FALSE)>>, <<Close("svg")>>>>,
      <<<<Open("svg", <<Attr("viewBox", "0 0 32 32"), Attr("fill", "none"),
                        Attr("stroke", "#000")>>, FALSE)>>, <<Close("svg")>>>>,
      <<<<Open("svg", <<Attr("fill", "#3366ff"), Attr("stroke", "white")>>, FALSE)>>,
        <<Close("svg")>>>>,
      <<<<Open("svg", <<Attr("viewBox", "0 0 24 24")>>, FALSE)>>, <<>>>> }

SourceMarkups == {e[1] \o b \o e[2] : e \in Envelopes, b \in Bodies(MaxBody)}

(***************************************************************************)
(* The generator on one icon file                                           *)
(***************************************************************************)
\* Nothing rendered, no toast, no timer, no slug taken twice.
SideInit ==
    /\ colorProp = Undefined /\ secondaryColor = Undefined
    /\ rendered = [fill |-> "", stroke |-> "", content |-> <<>>]
    /\ showToast = FALSE /\ copiedName = "" /\ timers = {} /\ now = 0 /\ copies = 0
    /\ slugAgain = <<>>

Init ==
    /\ icon \in IconNames
    /\ svgContent \in SourceMarkups
    /\ pc = "read"
    /\ slug = <<>>
    /\ isMulticolor = FALSE
    /\ colorMode = "none"
    /\ viewBox = ""
    /\ innerContent = <<>>
    /\ secondPass = <<>>
    /\ isFlag = FALSE /\ isMultiColor = FALSE /\ isFilled = FALSE
    /\ icons = <<>> /\ position = 0 /\ optimizedContent = <<>>
    /\ iconMetadata = <<>> /\ formattedCode = <<>> /\ written = {}
    /\ warnings = {} /\ failedAt = "none"
    /\ SideInit

\* The slug of the file's name and the flag it decides.
NameIcon ==
    /\ pc = "read"
    /\ slug' = slugify(icon)
    /\ isMulticolor' = IsMulticolorSlug(slugify(icon))
    /\ pc' = "named"
    /\ UNCHANGED <<icon, svgContent, colorMode, viewBox, innerContent, secondPass,
                   flagVars, batchVars, sideVars>>

\* The view box and the inner markup of the file's content.  The optimizer
\* is an external library; the content it hands on (or the file's own
\* content, when it throws) is svgContent.
ExtractContent ==
    /\ pc = "named"
    /\ viewBox' = extractViewBox(svgContent)
    /\ innerContent' = extractInnerSVG(svgContent, isMulticolor)
    /\ colorMode' = ColorModeOf(svgContent, isMulticolor)
    /\ pc' = "extracted"
    /\ UNCHANGED <<icon, svgContent, slug, isMulticolor, secondPass, flagVars,
                   batchVars, sideVars>>

\* extractInnerSVG applied to its own result, with the same flag.
RewriteAgain ==
    /\ pc = "extracted"
    /\ secondPass' = extractInnerSVG(innerContent, isMulticolor)
    /\ pc' = "rewritten"
    /\ UNCHANGED <<icon, svgContent, slug, isMulticolor, colorMode, viewBox,
                   innerContent, flagVars, batchVars, sideVars>>

\* The generator of lines 1-381 on the same file: the slug and the flag
\* prefix.
NameIcon1 ==
    /\ pc = "read"
    /\ slug' = slugify(icon)
    /\ isFlag' = StartsWith(slugify(icon), FlagPrefix)
    /\ pc' = "named1"
    /\ UNCHANGED <<icon, svgContent, isMulticolor, colorMode, viewBox, innerContent,
                   secondPass, isMultiColor, isFilled, batchVars, sideVars>>

\* Its classification (by content, then by name), view box and inner markup.
ExtractContent1 ==
    /\ pc = "named1"
    /\ isMultiColor' = isMultiColorIcon(svgContent)
    /\ isFilled' = (Includes(slug, FilledMark) /\ ~isFlag /\ ~isMultiColor')
    /\ viewBox' = extractViewBox(svgContent)
    /\ innerContent' = extractInnerSVG1(svgContent, isFlag \/ isMultiColor',
                                        isMultiColor', isFilled')
    /\ pc' = "extracted1"
    /\ UNCHANGED <<icon, svgContent, slug, isMulticolor, colorMode, secondPass,
                   isFlag, batchVars, sideVars>>

Next == NameIcon \/ ExtractContent \/ RewriteAgain \/ NameIcon1 \/ ExtractContent1

Spec == Init /\ [][Next]_vars

TypeOK ==
    /\ pc \in {"read", "named", "extracted", "rewritten", "named1", "extracted1",
              "readFile", "slugify", "optimize", "extract", "format", "write",
              "index", "done", "exit", "rendered", "rendered1",
              "name", "slugged", "reslugged", "preview"}
    /\ failedAt \in {"none", "read", "write", "index"}
    /\ isMulticolor \in BOOLEAN
    /\ colorMode \in {"none", "multicolor", "monochrome", "colored"}

(***************************************************************************)
(* The loop of generateReactIcons over the files of the directory           *)
(***************************************************************************)
FileCount == 2

\* The .svg files a directory may hold; two of them, Caf\'e.svg and cafe.svg,
\* differ by an accent and a capital.
BatchFiles ==
    { [name    |-> <<"c", "a", "f", "e">>,
       content |-> <<Open("svg", <<Attr("viewBox", "0 0 24 24")>>, FALSE),
                     Open("line", <<Attr("x1", "0")>>, TRUE),
                     Close("svg")>>],
      [name    |-> <<"C", "a", "f", "e_acute">>,
       content |-> <<Open("svg", <<Attr("viewBox", "0 0 32 32")>>, FALSE),
                     Open("path", <<Attr("fill", "#000000"), Attr("d", "M2 2")>>, TRUE),
                     Close("svg")>>],
      [name    |-> <<"M", "u", "l", "t", "i", "c", "o", "l", "o", "r", " ",
                     "L", "o", "g", "o">>,
       content |-> <<Open("svg", <<Attr("viewBox", "0 0 24 24")>>, FALSE),
                     Open("path", <<Attr("fill", "#ff0000"), Attr("d", "M0 0")>>, TRUE),
                     Open("circle", <<Attr("fill", "white"), Attr("stroke", "Black"),
                                      Attr("stroke-width", "2"), Attr("r", "2")>>, TRUE),
                     Close("svg")>>],
      [name    |-> <<"H", "e", "a", "r", "t", "-", "F", "i", "l", "l", "e", "d">>,
       content |-> <<Open("svg", <<Attr("fill", "none"), Attr("stroke", "#000")>>, FALSE),
                     Open("rect", <<Attr("fill", "#3366ff"), Attr("width", "4")>>, TRUE),
                     Close("svg")>>] }

\* readdirSync: lists of n files, no file twice.
RECURSIVE FileLists(_)
FileLists(n) ==
    IF n = 0 THEN {<<>>}
    ELSE {Append(l, f) : l \in FileLists(n - 1), f \in BatchFiles}

Directories ==
    {l \in FileLists(FileCount) : \A a, b \in 1..Len(l) : a # b => l[a] # l[b]}

\* What the optimizer, an external library, may hand on as result.data: of
\* its rewritings the model has the shortening of colour values, as its
\* default preset does it, and the markup left as it was.
ShortColor(v) ==
    CASE v = "#ff0000" -> "red"
      [] v = "#000000" -> "#000"
      [] OTHER         -> v

ShortColors(svg) ==
    [k \in 1..Len(svg) |->
        [svg[k] EXCEPT !.attrs =
            [j \in 1..Len(@) |->
                IF @[j].name \in {"fill", "stroke"}
                THEN Attr(@[j].name, ShortColor(@[j].value)) ELSE @[j]]]]

OptimizerOutputs(svg) == {svg, ShortColors(svg)}

\* generateComponentCode, and what prettier makes of it.
generateComponentCode(componentName, content, multicolor, box) ==
    [componentName |-> componentName, svgContent |-> content,
     isMulticolor |-> multicolor, viewBox |-> box, formatted |-> FALSE]

\* writeFileSync(path, data): the file is created or replaced.
WriteFile(files, path, data) ==
    {f \in files : f.path # path} \cup {[path |-> path, data |-> data]}

BatchInit ==
    /\ icons \in Directories
    /\ position = 1
    /\ pc = "readFile"
    /\ icon = <<>> /\ svgContent = <<>> /\ optimizedContent = <<>>
    /\ slug = <<>> /\ isMulticolor = FALSE /\ colorMode = "none"
    /\ viewBox = "" /\ innerContent = <<>> /\ secondPass = <<>>
    /\ isFlag = FALSE /\ isMultiColor = FALSE /\ isFilled = FALSE
    /\ iconMetadata = <<>> /\ formattedCode = <<>> /\ written = {}
    /\ warnings = {} /\ failedAt = "none"
    /\ SideInit

\* fs.readFileSync(filePath, "utf-8"): the content, or an exception that
\* nothing in the loop catches; it rejects generateReactIcons() and the
\* handler of its catch() ends the process with code 1.
ReadFile ==
    /\ pc = "readFile" /\ position <= Len(icons)
    /\ \/ /\ icon' = icons[position].name
          /\ svgContent' = icons[position].content
          /\ pc' = "slugify"
          /\ UNCHANGED failedAt
       \/ /\ failedAt' = "read"
          /\ pc' = "exit"
          /\ UNCHANGED <<icon, svgContent>>
    /\ UNCHANGED <<slug, isMulticolor, colorMode, viewBox, innerContent, secondPass,
                   flagVars, icons, position, optimizedContent, iconMetadata,
                   formattedCode, written, warnings, sideVars>>

\* A faulty variant of SlugifyFile: the flag is a variable of the whole run
\* that a multi-color file sets and no later file clears.
SlugifyFile_sticky ==
    /\ pc = "slugify"
    /\ slug' = slugify(icon)
    /\ isMulticolor' = (isMulticolor \/ IsMulticolorSlug(slugify(icon)))
    /\ pc' = "optimize"
    /\ UNCHANGED <<icon, svgContent, colorMode, viewBox, innerContent, secondPass,
                   flagVars, batchVars, sideVars>>

\* The slug and the flag of the file at hand.
SlugifyFile ==
    /\ pc = "slugify"
    /\ slug' = slugify(icon)
    /\ isMulticolor' = IsMulticolorSlug(slugify(icon))
    /\ pc' = "optimize"
    /\ UNCHANGED <<icon, svgContent, colorMode, viewBox, innerContent, secondPass,
                   flagVars, batchVars, sideVars>>

\* A faulty variant of Optimize: the content is not set before the try, so
\* that nothing is left when the optimizer throws.
Optimize_noFallback ==
    /\ pc = "optimize"
    /\ \/ /\ optimizedContent' \in OptimizerOutputs(svgContent)
          /\ UNCHANGED warnings
       \/ /\ optimizedContent' = <<>>
          /\ warnings' = warnings \cup {<<position, "svgo">>}
    /\ pc' = "extract"
    /\ UNCHANGED <<icon, svgContent, slug, isMulticolor, colorMode, viewBox,
                   innerContent, secondPass, flagVars, icons, position, iconMetadata,
                   formattedCode, written, failedAt, sideVars>>

\* let optimizedContent = svgContent; try { ... = optimize(...).data }
\* catch { console.warn(...) }
Optimize ==
    /\ pc = "optimize"
    /\ \/ /\ optimizedContent' \in OptimizerOutputs(svgContent)
          /\ UNCHANGED warnings
       \/ /\ optimizedContent' = svgContent
          /\ warnings' = warnings \cup {<<position, "svgo">>}
    /\ pc' = "extract"
    /\ UNCHANGED <<icon, svgContent, slug, isMulticolor, colorMode, viewBox,
                   innerContent, secondPass, flagVars, icons, position, iconMetadata,
                   formattedCode, written, failedAt, sideVars>>

\* extractViewBox, extractInnerSVG and iconMetadata.push
ExtractAndPush ==
    /\ pc = "extract"
    /\ viewBox' = extractViewBox(optimizedContent)
    /\ innerContent' = extractInnerSVG(optimizedContent, isMulticolor)
    /\ colorMode' = ColorModeOf(optimizedContent, isMulticolor)
    /\ iconMetadata' = Append(iconMetadata,
                              [componentName |-> toPascalCase(slug),
                               fileName      |-> icon,
                               slug          |-> slug,
                               isMulticolor  |-> isMulticolor,
                               svgContent    |-> extractInnerSVG(optimizedContent,
                                                                 isMulticolor),
                               viewBox       |-> extractViewBox(optimizedContent)])
    /\ pc' = "format"
    /\ UNCHANGED <<icon, svgContent, slug, isMulticolor, secondPass, flagVars, icons,
                   position, optimizedContent, formattedCode, written, warnings,
                   failedAt, sideVars>>

\* generateComponentCode, then prettier.format in its try: the formatted
\* code, or the unformatted one and a warning.
FormatComponent ==
    /\ pc = "format"
    /\ \/ /\ formattedCode' =
                [generateComponentCode(toPascalCase(slug), innerContent, isMulticolor,
                                       viewBox) EXCEPT !.formatted = TRUE]
          /\ UNCHANGED warnings
       \/ /\ formattedCode' =
                generateComponentCode(toPascalCase(slug), innerContent, isMulticolor,
                                      viewBox)
          /\ warnings' = warnings \cup {<<position, "prettier">>}
    /\ pc' = "write"
    /\ UNCHANGED <<icon, svgContent, slug, isMulticolor, colorMode, viewBox,
                   innerContent, secondPass, flagVars, icons, position,
                   optimizedContent, iconMetadata, written, failedAt, sideVars>>

\* fs.writeFileSync(componentPath, formattedCode), then the next file; an
\* exception of the write is caught by nothing in the loop.
WriteComponent ==
    /\ pc = "write"
    /\ \/ /\ written' = WriteFile(written, toPascalCase(slug), formattedCode)
          /\ position' = position + 1
          /\ pc' = IF position + 1 > Len(icons) THEN "index" ELSE "readFile"
          /\ UNCHANGED failedAt
       \/ /\ failedAt' = "write"
          /\ pc' = "exit"
          /\ UNCHANGED <<written, position>>
    /\ UNCHANGED <<icon, svgContent, slug, isMulticolor, colorMode, viewBox,
                   innerContent, secondPass, flagVars, icons, optimizedContent,
                   iconMetadata, formattedCode, warnings, sideVars>>

\* generateIndexFile, prettier in its try, and the write of index.ts.
WriteIndex ==
    /\ pc = "index"
    /\ \E formatted \in BOOLEAN :
          /\ warnings' = IF formatted THEN warnings
                         ELSE warnings \cup {<<0, "prettier">>}
          /\ \/ /\ written' =
                      WriteFile(written, <<"i", "n", "d", "e", "x">>,
                                [exports |-> [k \in 1..Len(iconMetadata) |->
                                                 iconMetadata[k].componentName],
                                 formatted |-> formatted])
                /\ pc' = "done"
                /\ UNCHANGED failedAt
             \/ /\ failedAt' = "index"
                /\ pc' = "exit"
                /\ UNCHANGED written
    /\ UNCHANGED <<icon, svgContent, slug, isMulticolor, colorMode, viewBox,
                   innerContent, secondPass, flagVars, icons, position,
                   optimizedContent, iconMetadata, formattedCode, sideVars>>

BatchNext ==
    \/ ReadFile \/ SlugifyFile \/ Optimize \/ ExtractAndPush \/ FormatComponent
    \/ WriteComponent \/ WriteIndex

BatchSpec == BatchInit /\ [][BatchNext]_vars

(***************************************************************************)
(* The wrapper component: createIcon of Icon.tsx, as the generated          *)
(* components call it, rendered with the caller's props                     *)
(***************************************************************************)
MaxRenderBody == 1

\* The files whose components are rendered.
RenderMarkups == {e[1] \o b \o e[2] : e \in Envelopes, b \in Bodies(MaxRenderBody)}

\* The color and secondaryColor props a caller passes, or leaves out.
ColorProps == {Undefined, "#60a5fa", "red"}
SecondaryProps == {Undefined, "yellow"}

\* a || b : b when a is undefined or the empty string.
OrElse(a, b) == IF a \in {Undefined, ""} THEN b ELSE a

\* detectFillable(svgContent, isFlag, isFilled) of the generator of lines
\* 1-381: a flag, a "filled" icon, or a fill attribute whose value does not
\* begin with none.  No file of the model has a style attribute.
detectFillable(content, flag, filled) ==
    \/ flag
    \/ filled
    \/ \E i \in 1..Len(AllAttrs(content)) :
          /\ ToLowerCase(AllAttrs(content)[i].name) = "fill"
          /\ IsNonNone(AllAttrs(content)[i].value)

PlaceholderTokens == {"{{PRIMARY_COLOR}}", "{{SECONDARY_COLOR}}", "{{TERTIARY_COLOR}}"}

\* svgContent.includes(token)
IncludesToken(markup, token) ==
    \E k \in 1..Len(markup) : \E j \in 1..Len(markup[k].attrs) :
        markup[k].attrs[j].value = token

\* The three replace(/\{\{..._COLOR\}\}/g, ...) in a row.
ReplaceTokens(markup, primary, secondary, tertiary) ==
    [k \in 1..Len(markup) |->
        [markup[k] EXCEPT !.attrs =
            [j \in 1..Len(@) |->
                Attr(@[j].name,
                     CASE @[j].value = "{{PRIMARY_COLOR}}"   -> primary
                       [] @[j].value = "{{SECONDARY_COLOR}}" -> secondary
                       [] @[j].value = "{{TERTIARY_COLOR}}"  -> tertiary
                       [] OTHER                              -> @[j].value)]]]

\* The component of createIcon(displayName, svgContent, defaultFillable,
\* viewBox) with its tokens, rendered with color and secondaryColor; the
\* tertiaryColor and fill props are left out.
createIcon1(content, defaultFillable, colour, secondary) ==
    LET finalColor          == OrElse(colour, "currentColor")
        finalSecondaryColor == OrElse(secondary, "white")
        finalTertiaryColor  == OrElse(Undefined, "currentColor")
        processedContent    ==
            IF IncludesToken(content, "{{PRIMARY_COLOR}}")
            THEN ReplaceTokens(content, finalColor, finalSecondaryColor,
                               finalTertiaryColor)
            ELSE content
        finalFill           == IF defaultFillable THEN finalColor ELSE "none"
        finalStroke         == finalColor
    IN  [fill |-> finalFill, stroke |-> finalStroke, content |-> processedContent]

\* The component of createIcon(name, svgContent, isMulticolor, viewBox),
\* rendered with color (currentColor when it is left out).
createIcon(content, multicolor, colour) ==
    LET given == IF colour = Undefined THEN "currentColor" ELSE colour
    IN  [fill    |-> IF multicolor THEN "none" ELSE given,
         stroke  |-> IF multicolor THEN "none" ELSE given,
         content |-> content]

RenderInit ==
    /\ icon \in IconNames
    /\ svgContent \in RenderMarkups
    /\ pc = "read"
    /\ slug = <<>>
    /\ isMulticolor = FALSE
    /\ colorMode = "none"
    /\ viewBox = ""
    /\ innerContent = <<>>
    /\ secondPass = <<>>
    /\ isFlag = FALSE /\ isMultiColor = FALSE /\ isFilled = FALSE
    /\ icons = <<>> /\ position = 0 /\ optimizedContent = <<>>
    /\ iconMetadata = <<>> /\ formattedCode = <<>> /\ written = {}
    /\ warnings = {} /\ failedAt = "none"
    /\ SideInit

\* A component of the generator of lines 383-738 is rendered.
RenderIcon ==
    /\ pc = "extracted"
    /\ \E c \in ColorProps :
          /\ colorProp' = c
          /\ rendered' = createIcon(innerContent, isMulticolor, c)
    /\ pc' = "rendered"
    /\ UNCHANGED <<icon, svgContent, slug, isMulticolor, colorMode, viewBox,
                   innerContent, secondPass, flagVars, batchVars, secondaryColor,
                   toastVars, slugAgain>>

\* A component of the generator of lines 1-381 is rendered.
RenderIcon1 ==
    /\ pc = "extracted1"
    /\ \E c \in ColorProps, s \in SecondaryProps :
          /\ colorProp' = c
          /\ secondaryColor' = s
          /\ rendered' = createIcon1(innerContent,
                                     detectFillable(svgContent, isFlag, isFilled), c, s)
    /\ pc' = "rendered1"
    /\ UNCHANGED <<icon, svgContent, slug, isMulticolor, colorMode, viewBox,
                   innerContent, secondPass, flagVars, batchVars, toastVars,
                   slugAgain>>

RenderNext ==
    \/ NameIcon \/ ExtractContent \/ RenderIcon
    \/ NameIcon1 \/ ExtractContent1 \/ RenderIcon1

RenderSpec == RenderInit /\ [][RenderNext]_vars

(***************************************************************************)
(* slugify on file names of every shape, and on its own result              *)
(***************************************************************************)
MaxNameLen == 4

\* The characters of the names: a lower-case and an upper-case letter, a
\* digit, an accented letter, a hyphen, a space and an underscore.
NameChars == {"a", "B", "9", "e_acute", "-", " ", "_"}

RECURSIVE NamesUpTo(_)
NamesUpTo(n) ==
    IF n = 0 THEN {<<>>}
    ELSE NamesUpTo(n - 1) \cup {Append(w, c) : w \in NamesUpTo(n - 1), c \in NameChars}

SlugInit ==
    /\ icon \in NamesUpTo(MaxNameLen)
    /\ pc = "name"
    /\ svgContent = <<>>
    /\ slug = <<>>
    /\ isMulticolor = FALSE
    /\ colorMode = "none"
    /\ viewBox = ""
    /\ innerContent = <<>>
    /\ secondPass = <<>>
    /\ isFlag = FALSE /\ isMultiColor = FALSE /\ isFilled = FALSE
    /\ icons = <<>> /\ position = 0 /\ optimizedContent = <<>>
    /\ iconMetadata = <<>> /\ formattedCode = <<>> /\ written = {}
    /\ warnings = {} /\ failedAt = "none"
    /\ SideInit

\* const slug = slugify(iconName)
SlugifyName ==
    /\ pc = "name"
    /\ slug' = slugify(icon)
    /\ pc' = "slugged"
    /\ UNCHANGED <<icon, svgContent, isMulticolor, colorMode, viewBox, innerContent,
                   secondPass, flagVars, batchVars, wrapperVars, toastVars, slugAgain>>

\* slugify applied to a slug, as when a file is named by its slug.
SlugifyAgain ==
    /\ pc = "slugged"
    /\ slugAgain' = slugify(slug)
    /\ pc' = "reslugged"
    /\ UNCHANGED <<icon, svgContent, slug, isMulticolor, colorMode, viewBox,
                   innerContent, secondPass, flagVars, batchVars, wrapperVars,
                   toastVars>>

SlugNext == SlugifyName \/ SlugifyAgain

SlugSpec == SlugInit /\ [][SlugNext]_vars

(***************************************************************************)
(* The copy toast of the preview application (App.tsx 8-42, 190-194)        *)
(***************************************************************************)
\* Time is counted in seconds.  The delay of the timer a copy starts:
\* setTimeout(..., 2000).
ToastDelay == 2

MaxCopies == 3
MaxTime == 6

\* The names of the icons of the grid.
PreviewNames == {"Cafe", "FlagBr"}

\* A timer is due when its delay has passed; it has not run yet.
DueTimers == {t \in timers : t.due <= now}

ToastInit ==
    /\ pc = "preview"
    /\ icon = <<>>
    /\ svgContent = <<>>
    /\ slug = <<>>
    /\ isMulticolor = FALSE
    /\ colorMode = "none"
    /\ viewBox = ""
    /\ innerContent = <<>>
    /\ secondPass = <<>>
    /\ isFlag = FALSE /\ isMultiColor = FALSE /\ isFilled = FALSE
    /\ icons = <<>> /\ position = 0 /\ optimizedContent = <<>>
    /\ iconMetadata = <<>> /\ formattedCode = <<>> /\ written = {}
    /\ warnings = {} /\ failedAt = "none"
    /\ SideInit

\* copyToClipboard(name): the name and the toast are set and a timer is
\* started; no timer started before is cancelled.  Copies end early enough
\* for their timers to run before MaxTime.
copyToClipboard ==
    /\ pc = "preview"
    /\ copies < MaxCopies
    /\ now + ToastDelay <= MaxTime
    /\ \E name \in PreviewNames : copiedName' = name
    /\ showToast' = TRUE
    /\ copies' = copies + 1
    /\ timers' = timers \cup {[id |-> copies + 1, due |-> now + ToastDelay]}
    /\ UNCHANGED <<icon, svgContent, pc, slug, isMulticolor, colorMode, viewBox,
                   innerContent, secondPass, flagVars, batchVars, wrapperVars,
                   now, slugAgain>>

\* The callback of a timer, () => setShowToast(false), runs once the delay
\* has passed; timers of one delay run in the order they were started.
TimerFires ==
    /\ pc = "preview"
    /\ \E t \in DueTimers :
          /\ \A u \in DueTimers : t.id <= u.id
          /\ timers' = timers \ {t}
    /\ showToast' = FALSE
    /\ UNCHANGED <<icon, svgContent, pc, slug, isMulticolor, colorMode, viewBox,
                   innerContent, secondPass, flagVars, batchVars, wrapperVars,
                   copiedName, now, copies, slugAgain>>

\* A second passes; a timer that is due runs before the next second.
Tick ==
    /\ pc = "preview"
    /\ now < MaxTime
    /\ DueTimers = {}
    /\ now' = now + 1
    /\ UNCHANGED <<icon, svgContent, pc, slug, isMulticolor, colorMode, viewBox,
                   innerContent, secondPass, flagVars, batchVars, wrapperVars,
                   showToast, copiedName, timers, copies, slugAgain>>

ToastNext == copyToClipboard \/ TimerFires \/ Tick

ToastSpec == ToastInit /\ [][ToastNext]_vars

(***************************************************************************)
(* Vocabulary of the properties                                             *)
(***************************************************************************)
Extracted == pc \in {"extracted", "rewritten"}

\* The slug of the file's name carries the reserved multi-color prefix.
HasMulticolorSignal == StartsWith(slugify(icon), MulticolorPrefix)

\* The markup between the root tag and its closing tag, which the rewriter
\* works on; the whole markup when there is no such envelope.
SourceInner == IF HasEnvelope(svgContent) THEN EnvelopeInner(svgContent) ELSE svgContent

IsShape(t) == t.kind = "open" /\ t.tag \in ShapeTags

ColourNames == {"fill", "stroke"}

\* The raw values of the files, by class.
BlackClass == {"black", "Black", "#000", "#000000"}
WhiteClass == {"white", "WHITE", "#fff", " #FFFFFF "}
OtherColours == {"#ff0000", "#3366ff", "red"}

\* The value of the attribute n of a tag as written, or Null.
Own(t, n) ==
    IF \E i \in 1..Len(t.attrs) : t.attrs[i].name = n
    THEN t.attrs[Min({i \in 1..Len(t.attrs) : t.attrs[i].name = n})].value
    ELSE Null

NonColourAttrs(t) == SelectSeq(t.attrs, LAMBDA a : a.name \notin ColourNames)

\* Token k of the markup stands inside a <defs> ... </defs> block.
InDefs(svg, k) ==
    \E i \in 1..(k - 1) :
        /\ svg[i].kind = "open" /\ svg[i].tag = "defs"
        /\ \A m \in (i + 1)..(k - 1) : ~(svg[m].kind = "close" /\ svg[m].tag = "defs")
        /\ \E j \in (k + 1)..Len(svg) : svg[j].kind = "close" /\ svg[j].tag = "defs"

\* The places <<k, i>> of the fill and stroke attributes of a markup.
ColourPlaces(svg) ==
    UNION { {<<k, i>> : i \in {j \in 1..Len(svg[k].attrs) :
                                    svg[k].attrs[j].name \in ColourNames}} :
            k \in 1..Len(svg) }

(***************************************************************************)
(* C1                                                                       *)
(***************************************************************************)
\* C1 as stated: for a file whose slug carries the multi-color prefix the
\* flag is set whatever the content, and every fill and stroke attribute of
\* every element of the source, the root <svg> tag included, is found with
\* its value on an element of the output.
C1_EveryElementKeepsColours ==
    (Extracted /\ HasMulticolorSignal) =>
        /\ isMulticolor
        /\ \A p \in ColourPlaces(svgContent) :
              \E m \in 1..Len(innerContent) :
                  /\ innerContent[m].tag = svgContent[p[1]].tag
                  /\ \E j \in 1..Len(innerContent[m].attrs) :
                        innerContent[m].attrs[j] = svgContent[p[1]].attrs[p[2]]

\* C1 amended: for a file whose slug carries the multi-color prefix the flag
\* is set whatever the content, and every fill and stroke attribute of every
\* element inside the root <svg> wrapper stays on its element, at its place,
\* with its value; the root tag goes with the wrapper, its attributes with it.
C1_InnerElementsKeepColours ==
    (Extracted /\ HasMulticolorSignal) =>
        /\ isMulticolor
        /\ colorMode \in {"multicolor", "none"}
        /\ LET source == SourceInner
           IN  /\ Len(innerContent) = Len(source)
               /\ \A k \in 1..Len(source) :
                     /\ innerContent[k].tag = source[k].tag
                     /\ \A i \in 1..Len(source[k].attrs) :
                           source[k].attrs[i].name \in ColourNames =>
                               /\ i <= Len(innerContent[k].attrs)
                               /\ innerContent[k].attrs[i] = source[k].attrs[i]

\* A multi-color file with a red path and a black-and-white circle, rewritten.
C1_Witness ==
    /\ pc = "extracted" /\ HasMulticolorSignal /\ colorMode = "multicolor"
    /\ \E k \in 1..Len(innerContent) :
          /\ innerContent[k].tag = "path"
          /\ Own(innerContent[k], "fill") = "#ff0000"
          /\ Own(innerContent[k], "stroke") = "none"
    /\ \E k \in 1..Len(innerContent) :
          /\ innerContent[k].tag = "circle"
          /\ Own(innerContent[k], "fill") = "white"
          /\ Own(innerContent[k], "stroke") = "Black"

(***************************************************************************)
(* C2                                                                       *)
(***************************************************************************)
\* The markup holds a fill or stroke value that is neither black nor white
\* (nor none, nor currentColor) outside every <defs> block.
HasOtherColourOutsideDefs ==
    \E p \in ColourPlaces(svgContent) :
        /\ svgContent[p[1]].attrs[p[2]].value \in OtherColours
        /\ ~InDefs(svgContent, p[1])

\* C2: a file without naming signal that holds such a value is Colored; each
\* shape loses a fill (stroke) that is neither black nor white, carries the
\* literal black where its fill (stroke) was black-class and the literal
\* white where it was white-class.
C2_ColoredKeepsBlackAndWhite ==
    (Extracted /\ HasEnvelope(svgContent) /\ HasOtherColourOutsideDefs
        /\ ~HasMulticolorSignal) =>
        /\ colorMode = "colored"
        /\ LET source == SourceInner
           IN  /\ Len(innerContent) = Len(source)
               /\ \A k \in 1..Len(source) : \A n \in ColourNames :
                     IsShape(source[k]) =>
                         /\ Own(source[k], n) \in OtherColours =>
                               Own(innerContent[k], n) = Null
                         /\ Own(source[k], n) \in BlackClass =>
                               Own(innerContent[k], n) = "black"
                         /\ Own(source[k], n) \in WhiteClass =>
                               Own(innerContent[k], n) = "white"

\* A red path beside a black path: the red fill is gone, the black one is
\* the literal black.
C2_Witness ==
    /\ pc = "extracted" /\ colorMode = "colored" /\ Len(innerContent) = 2
    /\ Own(SourceInner[1], "fill") = "#ff0000"
    /\ Own(innerContent[1], "fill") = Null
    /\ Own(SourceInner[2], "fill") = "#000"
    /\ Own(innerContent[2], "fill") = "black"

(***************************************************************************)
(* C3                                                                       *)
(***************************************************************************)
\* The only fill or stroke attribute of the markup is one fill="#000000",
\* on a shape.
OnlyOneBlackFill ==
    /\ Cardinality(ColourPlaces(svgContent)) = 1
    /\ \A p \in ColourPlaces(svgContent) :
          /\ IsShape(svgContent[p[1]])
          /\ svgContent[p[1]].attrs[p[2]] = Attr("fill", "#000000")

\* C3: a file without naming signal whose only fill or stroke attribute is a
\* single fill="#000000" on a shape is Monochrome, and no shape of the
\* output has a fill attribute.
C3_SingleBlackFillDropped ==
    (Extracted /\ HasEnvelope(svgContent) /\ OnlyOneBlackFill
        /\ ~HasMulticolorSignal) =>
        /\ colorMode = "monochrome"
        /\ \A k \in 1..Len(innerContent) :
              IsShape(innerContent[k]) => Own(innerContent[k], "fill") = Null

\* The path with fill="#000000" is in the output, without its fill.
C3_Witness ==
    /\ pc = "extracted" /\ ~HasMulticolorSignal /\ OnlyOneBlackFill
    /\ colorMode = "monochrome"
    /\ \E k \in 1..Len(innerContent) :
          /\ Own(SourceInner[k], "fill") = "#000000"
          /\ Own(innerContent[k], "d") = "M2 2"
          /\ Own(innerContent[k], "fill") = Null

(***************************************************************************)
(* C4                                                                       *)
(***************************************************************************)
\* The file of the scenario and the attributes of a tag as a set.
ScenarioInput ==
    <<Open("svg", <<Attr("viewBox", "0 0 24 24")>>, FALSE),
      Open("path", <<Attr("fill", "#000"), Attr("d", "M0 0")>>, TRUE),
      Open("path", <<Attr("stroke", "#fff"), Attr("d", "M1 1")>>, TRUE),
      Close("svg")>>

AttrSet(t) == {t.attrs[i] : i \in 1..Len(t.attrs)}

\* A Monochrome file whose root tag has no fill and no stroke.
MonochromePlainRoot ==
    /\ Extracted /\ colorMode = "monochrome"
    /\ Own(SvgTag(svgContent), "fill") = Null
    /\ Own(SvgTag(svgContent), "stroke") = Null

OnlyBlackFill(t) ==
    IsShape(t) /\ Own(t, "fill") \in BlackClass /\ Own(t, "stroke") = Null

OnlyWhiteStroke(t) ==
    IsShape(t) /\ Own(t, "stroke") \in WhiteClass /\ Own(t, "fill") = Null

\* C4 as stated: in such a file a shape with only a black-class fill comes
\* out with its other attributes and nothing added, a shape with only a
\* white-class stroke with stroke="white" and no fill; the scenario gives
\* <path d="M0 0"/> and <path stroke="white" d="M1 1"/> up to the order of
\* the attributes.
C4_BlackFillShapeGetsNothing ==
    MonochromePlainRoot =>
        /\ \A k \in 1..Len(SourceInner) :
              /\ OnlyBlackFill(SourceInner[k]) =>
                    AttrSet(innerContent[k]) = AttrSet([attrs |-> NonColourAttrs(SourceInner[k])])
              /\ OnlyWhiteStroke(SourceInner[k]) =>
                    AttrSet(innerContent[k]) =
                        AttrSet([attrs |-> NonColourAttrs(SourceInner[k])])
                            \cup {Attr("stroke", "white")}
        /\ svgContent = ScenarioInput =>
              /\ Len(innerContent) = 2
              /\ AttrSet(innerContent[1]) = {Attr("d", "M0 0")}
              /\ AttrSet(innerContent[2]) = {Attr("stroke", "white"), Attr("d", "M1 1")}

\* C4 amended: in such a file a shape with only a black-class fill comes out
\* with its other attributes followed by stroke="none", the root's default
\* stroke written out, and no fill; a shape with only a white-class stroke
\* with its other attributes followed by stroke="white", and no fill; the
\* scenario gives <path d="M0 0" stroke="none"/> and
\* <path d="M1 1" stroke="white"/>.
C4_BlackFillShapeGetsStrokeNone ==
    MonochromePlainRoot =>
        /\ \A k \in 1..Len(SourceInner) :
              /\ OnlyBlackFill(SourceInner[k]) =>
                    innerContent[k].attrs =
                        NonColourAttrs(SourceInner[k]) \o <<Attr("stroke", "none")>>
              /\ OnlyWhiteStroke(SourceInner[k]) =>
                    innerContent[k].attrs =
                        NonColourAttrs(SourceInner[k]) \o <<Attr("stroke", "white")>>
        /\ svgContent = ScenarioInput =>
              innerContent =
                  <<Open("path", <<Attr("d", "M0 0"), Attr("stroke", "none")>>, TRUE),
                    Open("path", <<Attr("d", "M1 1"), Attr("stroke", "white")>>, TRUE)>>

\* The scenario's file, rewritten.
C4_Witness ==
    /\ pc = "extracted" /\ svgContent = ScenarioInput /\ ~isMulticolor
    /\ MonochromePlainRoot
    /\ Len(innerContent) = 2

C6_NoRawColourLeft ==
    (Extracted /\ colorMode \in {"monochrome", "colored"}) =>
        \A k \in 1..Len(innerContent) :
            IsShape(innerContent[k]) =>
                \A i \in 1..Len(innerContent[k].attrs) :
                    innerContent[k].attrs[i].name \in ColourNames =>
                        innerContent[k].attrs[i].value \in {"none", "white", "black"}

\* A rectangle with a blue stroke and a polyline with a red fill, rewritten.
C6_Witness ==
    /\ pc = "extracted" /\ colorMode = "colored" /\ Len(innerContent) = 2
    /\ SourceInner[1].tag = "rect" /\ Own(SourceInner[1], "stroke") = "#3366ff"
    /\ Own(innerContent[1], "stroke") = Null
    /\ SourceInner[2].tag = "polyline" /\ Own(SourceInner[2], "fill") = "red"
    /\ Own(innerContent[2], "fill") = Null

(***************************************************************************)
(* C7                                                                       *)
(***************************************************************************)
\* The shapes of a markup, in document order.
ShapesOf(markup) == SelectSeq(markup, IsShape)

\* C7 as stated: for every file and both values of the flag, the rewriter
\* applied to the inner markup it produced changes nothing: the shapes come
\* back with the attributes they had, none added, removed or altered.
C7_SecondPassChangesNothing ==
    pc = "rewritten" => ShapesOf(secondPass) = ShapesOf(innerContent)

\* C7 amended: for every file and both values of the flag, the rewriter
\* applied to the inner markup it produced returns that inner markup,
\* provided that inner markup holds no <svg ...>...</svg> envelope of its own
\* (the source had no nested <svg> element).
C7_SecondPassChangesNothingWithoutNestedSvg ==
    (pc = "rewritten" /\ ~HasEnvelope(innerContent)) => secondPass = innerContent

\* A file whose first pass changed its shapes and whose second pass did not.
C7_Witness ==
    /\ pc = "rewritten" /\ HasEnvelope(svgContent) /\ ~HasEnvelope(innerContent)
    /\ innerContent # SourceInner
    /\ Len(innerContent) = 2
    /\ secondPass = innerContent

(***************************************************************************)
(* C8                                                                       *)
(***************************************************************************)
\* C8: the view box is the root <svg> tag's viewBox when that tag has one,
\* and "0 0 24 24" when it has none, whatever the rest of the markup holds.
C8_ViewBoxOfRootTag ==
    (Extracted /\ OpenSvgIndices(svgContent) # {}) =>
        viewBox = (IF Own(SvgTag(svgContent), "viewBox") # Null
                   THEN Own(SvgTag(svgContent), "viewBox")
                   ELSE "0 0 24 24")

(***************************************************************************)
(* C9                                                                       *)
(***************************************************************************)
\* No <svg ...> tag, or no </svg> after the first one.
NoEnvelope ==
    \A i \in 1..Len(svgContent) :
        (svgContent[i].kind = "open" /\ svgContent[i].tag = "svg") =>
            \E j \in 1..i :
                /\ svgContent[j].kind = "open" /\ svgContent[j].tag = "svg"
                /\ \A m \in (j + 1)..Len(svgContent) :
                      ~(svgContent[m].kind = "close" /\ svgContent[m].tag = "svg")

\* C9: a markup that matches no <svg ...>...</svg> envelope is returned as
\* it is, in both modes of the flag.
C9_PassThrough ==
    (Extracted /\ NoEnvelope) => innerContent = svgContent

\* A root tag never closed, around a red path: handed back whole.
C9_Witness ==
    /\ pc = "extracted" /\ NoEnvelope /\ Len(svgContent) = 2
    /\ IsSvgOpen(svgContent[1])
    /\ Own(svgContent[2], "fill") = "#ff0000"
    /\ innerContent = svgContent

(***************************************************************************)
(* C10                                                                      *)
(***************************************************************************)
\* Every fill and stroke value outside the <defs> blocks is black-class,
\* white-class, none or currentColor, and a <defs> block holds another.
OnlyDefsHoldOtherColours ==
    /\ \A p \in ColourPlaces(svgContent) :
          InDefs(svgContent, p[1]) \/
              svgContent[p[1]].attrs[p[2]].value
                  \in BlackClass \cup WhiteClass \cup {"none", "currentColor"}
    /\ \E p \in ColourPlaces(svgContent) :
          /\ InDefs(svgContent, p[1])
          /\ svgContent[p[1]].attrs[p[2]].value \in OtherColours

\* C10: a file without naming signal whose other colours all stand inside
\* <defs> blocks is Monochrome.
C10_DefsIgnored ==
    (Extracted /\ ~HasMulticolorSignal /\ HasEnvelope(svgContent)
        /\ OnlyDefsHoldOtherColours) =>
        colorMode = "monochrome"

(***************************************************************************)
(* Vocabulary of the properties about the naming signals                    *)
(***************************************************************************)
\* The slug carries the hybrid mark "-filled"; it carries the flag prefix,
\* the name signal of the generator of lines 1-381 for multi-color icons.
HasHybridSignal == Includes(slugify(icon), FilledMark)

HasFlagSignal == StartsWith(slugify(icon), FlagPrefix)

Extracted1 == pc = "extracted1"

\* The one rule the generator of lines 1-381 rewrites by.
Mode1 ==
    IF ~HasEnvelope(svgContent) THEN "none"
    ELSE IF isFlag /\ ~isMultiColor THEN "flag"
    ELSE IF isMultiColor THEN "multi-color"
    ELSE IF isFilled THEN "filled"
    ELSE "regular"

ColourTokens == {"{{PRIMARY_COLOR}}", "{{SECONDARY_COLOR}}"}

C12_FilledNameAlwaysHybrid ==
    (Extracted1 /\ HasHybridSignal /\ ~HasFlagSignal /\ ~HasMulticolorSignal) =>
        /\ isFilled
        /\ HasEnvelope(svgContent) => Mode1 = "filled"

(***************************************************************************)
(* C13                                                                      *)
(***************************************************************************)
\* The fill (stroke) a shape has once an absent one is resolved against the
\* root <svg> tag's own, black (none) when the root has none; a value is
\* real when it is not none.
RootOwn(n) ==
    IF Own(SvgTag(svgContent), n) # Null THEN Own(SvgTag(svgContent), n)
    ELSE IF n = "fill" THEN "black" ELSE "none"

Resolved(t, n) == IF Own(t, n) # Null THEN Own(t, n) ELSE RootOwn(n)

IsReal(v) == v # "none"

\* C13: in Hybrid mode every shape of the seven kinds with a real stroke and
\* no real fill comes out with fill="none", every shape with a real fill and
\* no real stroke with stroke="none", and no shape of the output carries a
\* fill or stroke other than none.
C13_HybridForcesNone ==
    (Extracted1 /\ Mode1 = "filled") =>
        /\ Len(innerContent) = Len(SourceInner)
        /\ \A k \in 1..Len(SourceInner) :
              IsShape(SourceInner[k]) =>
                  /\ (IsReal(Resolved(SourceInner[k], "stroke"))
                        /\ ~IsReal(Resolved(SourceInner[k], "fill"))) =>
                        Own(innerContent[k], "fill") = "none"
                  /\ (IsReal(Resolved(SourceInner[k], "fill"))
                        /\ ~IsReal(Resolved(SourceInner[k], "stroke"))) =>
                        Own(innerContent[k], "stroke") = "none"
                  /\ \A n \in ColourNames : Own(innerContent[k], n) \in {Null, "none"}

(***************************************************************************)
(* C14                                                                      *)
(***************************************************************************)
HasStrokeWidth(t) == Own(t, "stroke-width") # Null

\* C14: in Monochrome, Colored and Hybrid mode (and in the regular mode of
\* the older generator) no shape of the output has a stroke-width; in
\* MultiColor mode (and in the flag mode) every stroke-width of the source
\* is in the output with its value.
C14_StrokeWidthStripped ==
    /\ (Extracted /\ colorMode \in {"monochrome", "colored"}) =>
          \A k \in 1..Len(innerContent) :
              IsShape(innerContent[k]) => ~HasStrokeWidth(innerContent[k])
    /\ (Extracted1 /\ Mode1 \in {"filled", "regular"}) =>
          \A k \in 1..Len(innerContent) :
              IsShape(innerContent[k]) => ~HasStrokeWidth(innerContent[k])
    /\ ((Extracted /\ colorMode = "multicolor")
          \/ (Extracted1 /\ Mode1 \in {"flag", "multi-color"})) =>
          /\ Len(innerContent) = Len(SourceInner)
          /\ \A k \in 1..Len(SourceInner) :
                Own(innerContent[k], "stroke-width") = Own(SourceInner[k], "stroke-width")

(***************************************************************************)
(* C15                                                                      *)
(***************************************************************************)
\* The file's markup with the root's fill (black when the root has none)
\* written on every shape inside the root that has no fill of its own, and
\* the root's stroke (none when the root has none) on every shape that has
\* no stroke of its own.
WithRootColours(t, rootFill, rootStroke) ==
    [t EXCEPT !.attrs =
        @ \o (IF Own(t, "fill") = Null THEN <<Attr("fill", rootFill)>> ELSE <<>>)
          \o (IF Own(t, "stroke") = Null THEN <<Attr("stroke", rootStroke)>> ELSE <<>>)]

ExplicitSource ==
    LET first      == Min(OpenSvgIndices(svgContent))
        last       == Max(CloseSvgIndices(svgContent))
        rootFill   == RootOwn("fill")
        rootStroke == RootOwn("stroke")
    IN  [k \in 1..Len(svgContent) |->
            IF k > first /\ k < last /\ IsShape(svgContent[k])
            THEN WithRootColours(svgContent[k], rootFill, rootStroke)
            ELSE svgContent[k]]

\* C15: in Monochrome and Colored mode the output is the output for the
\* same file with the root's fill (or black) and the root's stroke (or none)
\* written on every shape that lacks its own.
C15_AbsentResolvedAgainstRoot ==
    (Extracted /\ colorMode \in {"monochrome", "colored"}) =>
        LET explicit == ExplicitSource
        IN  /\ detectColorMode(explicit) = colorMode
            /\ innerContent = extractInnerSVG(explicit, FALSE)

\* A root with stroke="white" around a path without colours: the path comes
\* out with stroke="white".
C15_Witness ==
    /\ pc = "extracted" /\ colorMode \in {"monochrome", "colored"}
    /\ Own(SvgTag(svgContent), "stroke") = "white"
    /\ \E k \in 1..Len(SourceInner) :
          /\ IsShape(SourceInner[k])
          /\ Own(SourceInner[k], "fill") = Null /\ Own(SourceInner[k], "stroke") = Null
          /\ Own(innerContent[k], "stroke") = "white"
          /\ Own(innerContent[k], "fill") = Null

(***************************************************************************)
(* C16                                                                      *)
(***************************************************************************)
\* The table of the decision, over the values as the files write them.
Decision(v, mode) ==
    IF v = "none" THEN "none"
    ELSE IF v = "currentColor" THEN Null
    ELSE IF v \in WhiteClass THEN "white"
    ELSE IF v \in BlackClass THEN (IF mode = "colored" THEN "black" ELSE Null)
    ELSE Null

\* C16: in Monochrome and Colored mode the fill and the stroke of every
\* shape of the output are what the table gives for the shape's effective
\* value and the mode: none for none, nothing for currentColor, white for
\* the white class, black (Colored) or nothing (Monochrome) for the black
\* class, nothing for any other value.
C16_DecisionTable ==
    (Extracted /\ colorMode \in {"monochrome", "colored"}) =>
        LET source == SourceInner
            root   == [n \in ColourNames |-> RootOwn(n)]
        IN  /\ Len(innerContent) = Len(source)
            /\ \A k \in 1..Len(source) : \A n \in ColourNames :
                  IsShape(source[k]) =>
                      Own(innerContent[k], n) =
                          Decision(IF Own(source[k], n) # Null
                                   THEN Own(source[k], n) ELSE root[n], colorMode)

\* A Colored file with a padded upper-case white fill and a capitalised
\* black stroke: white and black in the output.
C16_Witness ==
    /\ pc = "extracted" /\ colorMode = "colored"
    /\ \E k \in 1..Len(SourceInner) :
          /\ Own(SourceInner[k], "fill") = " #FFFFFF "
          /\ Own(innerContent[k], "fill") = "white"
    /\ \E k \in 1..Len(SourceInner) :
          /\ Own(SourceInner[k], "stroke") = "Black"
          /\ Own(innerContent[k], "stroke") = "black"

(***************************************************************************)
(* C17                                                                      *)
(***************************************************************************)
\* Values in a format the generator has no class for.
UnrecognisedColours == {"rgb(255, 0, 0)", "var(--brand)", "#ff00", "red"}

C18_NoColourIsMonochrome ==
    /\ (Extracted /\ HasEnvelope(svgContent) /\ ColourPlaces(svgContent) = {}
          /\ ~HasMulticolorSignal) => colorMode = "monochrome"
    /\ (Extracted /\ HasEnvelope(svgContent)) =>
          colorMode \in {"multicolor", "monochrome", "colored"}
    /\ pc = "read" => detectColorMode(svgContent) \in {"monochrome", "colored"}

\* A path and a line, neither with a colour, in a root without colour.
C18_Witness ==
    /\ pc = "extracted" /\ ~HasMulticolorSignal /\ HasEnvelope(svgContent)
    /\ ColourPlaces(svgContent) = {} /\ Len(SourceInner) = 2
    /\ SourceInner[1].tag = "path" /\ SourceInner[2].tag = "line"
    /\ colorMode = "monochrome"

(***************************************************************************)
(* Vocabulary of the properties about the loop                              *)
(***************************************************************************)
\* The optimizer threw for the k-th file of the directory.
OptimizerFailedFor(k) == <<k, "svgo">> \in warnings

\* The name of the k-th file's component, and whether it is on disk.
ComponentOf(k) == toPascalCase(slugify(icons[k].name))

Generated(k) == \E f \in written : f.path = ComponentOf(k)

\* What the generator makes of the k-th file's own content.
OwnInner(k) ==
    extractInnerSVG(icons[k].content, IsMulticolorSlug(slugify(icons[k].name)))

(***************************************************************************)
(* C19                                                                      *)
(***************************************************************************)
\* C19: when the optimizer throws for a file, the loop goes on with the
\* file's own content: the view box and the inner markup pushed for it are
\* those of the unoptimized content, the component written for it holds
\* them (until a later file of the same component name is written), and the
\* process does not end for that: if it ends while this file is at hand, it
\* is the write that threw.
C19_OptimizerFailureIsNotFatal ==
    /\ (pc = "extract" /\ OptimizerFailedFor(position)) =>
          optimizedContent = icons[position].content
    /\ \A k \in 1..Len(iconMetadata) :
          OptimizerFailedFor(k) =>
              /\ iconMetadata[k].fileName = icons[k].name
              /\ iconMetadata[k].viewBox = extractViewBox(icons[k].content)
              /\ iconMetadata[k].svgContent = OwnInner(k)
    /\ \A k \in 1..Len(icons) :
          (OptimizerFailedFor(k) /\ k < position) =>
              \E f \in written :
                  /\ f.path = ComponentOf(k)
                  /\ \/ /\ f.data.svgContent = OwnInner(k)
                        /\ f.data.viewBox = extractViewBox(icons[k].content)
                     \/ \E j \in (k + 1)..(position - 1) : ComponentOf(j) = ComponentOf(k)
    /\ (pc = "exit" /\ OptimizerFailedFor(position)) => failedAt = "write"

\* The loop is over; the optimizer threw for the first file, a multi-color
\* one with a red path the optimizer would have rewritten; its component is
\* on disk with the red as the file wrote it.
C19_Witness ==
    /\ pc = "done" /\ OptimizerFailedFor(1) /\ Generated(1)
    /\ iconMetadata[1].isMulticolor
    /\ Own(iconMetadata[1].svgContent[1], "fill") = "#ff0000"
    /\ ShortColors(icons[1].content) # icons[1].content

(***************************************************************************)
(* C20                                                                      *)
(***************************************************************************)
\* C20: when the run is over, whether a step of a file's pipeline threw or
\* not, every file of the directory other than the one whose step threw has
\* its component on disk.
C20_BatchNeverAborts ==
    (pc \in {"done", "exit"} /\ failedAt \in {"none", "read", "write"}) =>
        \A k \in 1..Len(icons) :
            (failedAt # "none" /\ k = position) \/ Generated(k)

(***************************************************************************)
(* C21                                                                      *)
(***************************************************************************)
\* What the loop makes of a file alone, once the optimizer has handed on
\* the markup `optimized` for it.
ResultOf(file, optimized) ==
    LET multicolor == IsMulticolorSlug(slugify(file.name))
    IN  [componentName |-> toPascalCase(slugify(file.name)),
         fileName      |-> file.name,
         slug          |-> slugify(file.name),
         isMulticolor  |-> multicolor,
         svgContent    |-> extractInnerSVG(optimized, multicolor),
         viewBox       |-> extractViewBox(optimized)]

\* The number of results the files before the one at hand, and the one at
\* hand once it is pushed, have left in the collection.
ResultsDue ==
    IF pc \in {"readFile", "slugify", "optimize", "extract"} THEN position - 1
    ELSE IF pc \in {"format", "write"} THEN position
    ELSE IF pc = "exit" /\ failedAt = "read" THEN position - 1
    ELSE IF pc = "exit" /\ failedAt = "write" THEN position
    ELSE Len(icons)

\* C21: in every directory, at every place of a file in it, the result
\* pushed for the file is what the loop makes of that file alone (its name
\* and what the optimizer handed on for its content), and so is the mode it
\* was rewritten in; the collection holds one result for each file
\* processed, in the order of the files, and a step only ever appends one
\* result to it, leaving the results it holds as they are.
C21_ResultDependsOnOwnFileOnly ==
    /\ [](/\ Len(iconMetadata) = ResultsDue
          /\ \A k \in 1..Len(iconMetadata) :
                \E o \in OptimizerOutputs(icons[k].content) :
                    iconMetadata[k] = ResultOf(icons[k], o)
          /\ pc \in {"format", "write"} =>
                /\ iconMetadata[position] = ResultOf(icons[position], optimizedContent)
                /\ colorMode = ColorModeOf(optimizedContent,
                                           IsMulticolorSlug(slugify(icons[position].name))))
    /\ [][\/ iconMetadata' = iconMetadata
          \/ /\ pc = "extract"
             /\ Len(iconMetadata') = Len(iconMetadata) + 1
             /\ SubSeq(iconMetadata', 1, Len(iconMetadata)) = iconMetadata]_vars

\* A run is over in which a file without naming signal came after a
\* multi-color one: its result is that of the file alone, not multi-color,
\* its blue fill dropped.
C21_Witness ==
    /\ pc = "done" /\ Len(iconMetadata) = 2
    /\ iconMetadata[1].isMulticolor /\ ~iconMetadata[2].isMulticolor
    /\ iconMetadata[2] = ResultOf(icons[2], icons[2].content)
    /\ Own(icons[2].content[2], "fill") = "#3366ff"
    /\ Own(iconMetadata[2].svgContent[1], "fill") = Null

(***************************************************************************)
(* C22                                                                      *)
(***************************************************************************)
\* Every fill and stroke attribute of the source's inner markup stands in
\* the output at its place with its value.
ColoursPreserved ==
    LET source == SourceInner
    IN  /\ Len(innerContent) = Len(source)
        /\ \A k \in 1..Len(source) : \A j \in 1..Len(source[k].attrs) :
              source[k].attrs[j].name \in ColourNames =>
                  /\ j <= Len(innerContent[k].attrs)
                  /\ innerContent[k].attrs[j] = source[k].attrs[j]

\* C22: a file whose slug starts with flag- is a multi-color icon for
\* either generator: the flag it is generated with is set (isMulticolor in
\* the generator of lines 383-738, isFlag in the one of lines 1-381) and
\* every fill and stroke of its inner markup is in the output with its
\* value.
C22_FlagPrefixIsMultiColor ==
    /\ (Extracted /\ HasFlagSignal) => (isMulticolor /\ ColoursPreserved)
    /\ (Extracted1 /\ HasFlagSignal) => (isFlag /\ ColoursPreserved)

(***************************************************************************)
(* C23                                                                      *)
(***************************************************************************)
HasToken(markup) == \E token \in PlaceholderTokens : IncludesToken(markup, token)

\* C23: when the inner markup of a generated component holds a placeholder
\* token, the markup the wrapper renders holds none, whatever colours the
\* caller passes or leaves out.
C23_NoTokenReachesPaint ==
    (pc \in {"rendered", "rendered1"} /\ HasToken(innerContent)) =>
        ~HasToken(rendered.content)

(***************************************************************************)
(* C24                                                                      *)
(***************************************************************************)
\* C24: what the wrapper renders for a multi-color icon (the flag of the
\* generator of lines 383-738; a flag or an icon that is multi-color by its
\* content in the generator of lines 1-381) is what it renders for it with
\* any other value of the color prop: the same root fill and stroke, the
\* same inner markup.
C24_MultiColorOpaqueToColor ==
    /\ (pc = "rendered" /\ isMulticolor) =>
          \A c \in ColorProps : createIcon(innerContent, isMulticolor, c) = rendered
    /\ (pc = "rendered1" /\ Mode1 \in {"flag", "multi-color"}) =>
          \A c \in ColorProps :
              createIcon1(innerContent, detectFillable(svgContent, isFlag, isFilled),
                          c, secondaryColor) = rendered

(***************************************************************************)
(* C25                                                                      *)
(***************************************************************************)
\* C25: in Monochrome and Colored mode every fill and every stroke of the
\* output, on whatever element it stands, is none, white or black.
C25_NoOtherColourAnywhere ==
    (Extracted /\ colorMode \in {"monochrome", "colored"}) =>
        \A k \in 1..Len(innerContent) : \A j \in 1..Len(innerContent[k].attrs) :
            innerContent[k].attrs[j].name \in ColourNames =>
                innerContent[k].attrs[j].value \in {"none", "white", "black"}

(***************************************************************************)
(* C26                                                                      *)
(***************************************************************************)
\* The attributes of a tag other than fill, stroke and stroke-width, in
\* their order.
FrameAttrs(t) ==
    SelectSeq(t.attrs, LAMBDA a : a.name \notin {"fill", "stroke", "stroke-width"})

\* C26: for either generator and in every mode the output has a token for
\* every token of the source's inner markup; a token that is not a shape
\* element is the source's token, and a shape element has the source's tag
\* and the source's attributes other than fill, stroke and stroke-width,
\* each with its value.
C26_OnlyShapeColoursChange ==
    (Extracted \/ Extracted1) =>
        LET source == SourceInner
        IN  /\ Len(innerContent) = Len(source)
            /\ \A k \in 1..Len(source) :
                  IF IsShape(source[k])
                  THEN /\ innerContent[k].tag = source[k].tag
                       /\ FrameAttrs(innerContent[k]) = FrameAttrs(source[k])
                  ELSE innerContent[k] = source[k]

(***************************************************************************)
(* C27                                                                      *)
(***************************************************************************)
\* Only a-z, 0-9 and hyphens; no hyphen at either end; no two hyphens in a
\* row.
IsNormalSlug(s) ==
    /\ \A i \in 1..Len(s) : s[i] \in SlugChars \cup {"-"}
    /\ s # <<>> => (s[1] # "-" /\ s[Len(s)] # "-")
    /\ \A i \in 1..(Len(s) - 1) : ~(s[i] = "-" /\ s[i + 1] = "-")

\* C27: the slug of every file name is normal in this sense, and the slug of
\* the slug is the slug.
C27_SlugifyIdempotent ==
    /\ pc \in {"slugged", "reslugged"} => (slug = slugify(icon) /\ IsNormalSlug(slug))
    /\ pc = "reslugged" => slugAgain = slug

\* "B -é": upper case, a run of a space and a hyphen, an accent; its slug
\* b-e is the slug of b-e.
C27_Witness ==
    /\ pc = "reslugged"
    /\ icon = <<"B", " ", "-", "e_acute">>
    /\ slug = <<"b", "-", "e">>
    /\ slugAgain = <<"b", "-", "e">>

(***************************************************************************)
(* C28                                                                      *)
(***************************************************************************)
\* The shape elements of a markup, in their order.
ShapeElements(markup) == SelectSeq(markup, LAMBDA t : IsShape(t))

\* C28: for either generator and in every mode, the shape elements of the
\* output are as many as those between the source's <svg> and </svg> (those
\* of the whole source when it has no such envelope), with the same names in
\* the same order, each self-closing if and only if the source's is.
C28_ShapeSequenceKept ==
    (Extracted \/ Extracted1) =>
        LET before == ShapeElements(SourceInner)
            after  == ShapeElements(innerContent)
        IN  /\ Len(after) = Len(before)
            /\ \A k \in 1..Len(before) :
                  /\ after[k].tag = before[k].tag
                  /\ after[k].selfClosing = before[k].selfClosing

\* A group around a path and a line after it, in Colored mode: the path and
\* the line come out in that order, self-closing, each with new colours.
C28_Witness ==
    /\ pc = "extracted" /\ colorMode = "colored"
    /\ Len(ShapeElements(SourceInner)) = 2 /\ Len(SourceInner) = 4
    /\ ShapeElements(innerContent)[1].tag = "path"
    /\ ShapeElements(innerContent)[2].tag = "line"
    /\ ShapeElements(innerContent)[1].selfClosing
    /\ ShapeElements(innerContent)[1] # ShapeElements(SourceInner)[1]
    /\ ShapeElements(innerContent)[2] # ShapeElements(SourceInner)[2]

(***************************************************************************)
(* C29                                                                      *)
(***************************************************************************)
\* The component file of the k-th file holds what was pushed for that file.
HasOwnComponent(k) ==
    \E f \in written :
        /\ f.path = ComponentOf(k)
        /\ f.data.svgContent = iconMetadata[k].svgContent
        /\ f.data.viewBox = iconMetadata[k].viewBox
        /\ f.data.isMulticolor = iconMetadata[k].isMulticolor

\* The names the index exports, in their order.
IndexExports ==
    (CHOOSE f \in written : f.path = <<"i", "n", "d", "e", "x">>).data.exports

\* C29: when the run is over without a failure, no two files of the
\* directory have the same component name, the component file of every file
\* holds that file's result, and the index exports no name twice.
C29_EveryFileHasItsComponent ==
    pc = "done" =>
        /\ \A a, b \in 1..Len(icons) : a # b => ComponentOf(a) # ComponentOf(b)
        /\ \A k \in 1..Len(icons) : HasOwnComponent(k)
        /\ \A a, b \in 1..Len(IndexExports) : a # b => IndexExports[a] # IndexExports[b]

(***************************************************************************)
(* C30                                                                      *)
(***************************************************************************)
\* The delay of the timer the most recent copy started has not passed yet.
LatestTimerPending == \E t \in timers : t.id = copies /\ now < t.due

\* C30: in the preview, the toast stays visible until the timer of the most
\* recent copy runs: as long as the delay of that timer has not passed the
\* toast is shown, whatever timers of earlier copies have run.
C30_ToastStaysUntilLatestTimer ==
    (pc = "preview" /\ LatestTimerPending) => showToast

====
